---- MODULE Spec2Model ----
(***************************************************************************)
(* A model of the data collector of OpenStack Neat                         *)
(* (neat/locals/collector.py): the local file store of per-VM CPU          *)
(* histories, the reconciliation of tracked and live VMs, the conversion   *)
(* of cumulative CPU time into a usage sample, and one data collection     *)
(* iteration (execute) of the collector loop.                              *)
(*                                                                         *)
(* Conventions.                                                            *)
(*  - A Python dict is a TLA+ function whose DOMAIN is the key set.        *)
(*  - A file is its text, a sequence of one-character strings; the local   *)
(*    directory is the dict `files` from file name (VM UUID) to text.      *)
(*  - Python integers are unbounded, TLC's are 32 bit.  A cumulative CPU   *)
(*    time (nanoseconds) is therefore held as [s, ns] with                 *)
(*    value = s * NANO + ns and 0 <= ns < NANO.                            *)
(*  - A call that raises is a record whose exc field names the exception.  *)
(*  - Timestamps are whole seconds.  time.time() returns a float, so the   *)
(*    division of calculate_cpu_mhz is a true division inside execute and  *)
(*    a Python 2 floor division when the timestamps are ints.              *)
(*  - The @contract decorators (the type checks of the docstrings) are     *)
(*    not modelled: a function is its body.                                *)
(***************************************************************************)
EXTENDS Integers, Sequences, FiniteSets, TLC

VARIABLES
    data_length,        \* config 'data_collector_data_length'
    physical_cpus,      \* state['physical_cpus']
    files,              \* <local_data_directory>/vm : file name -> text
    now,                \* the wall clock, in whole seconds
    pc,                 \* position of the collector process
    error,              \* the exception that ended the process, or "none"
    previous_time,      \* state['previous_time']
    previous_cpu_time,  \* state['previous_cpu_time'] : uuid -> CPU time
    vms_current,        \* execute: local vms_current (as a set)
    vms_added,          \* execute: local vms_added (as a set)
    vms_removed,        \* execute: local vms_removed (as a set)
    added_vm_data,      \* execute: local added_vm_data : uuid -> list(int)
    cpu_mhz,            \* execute: local cpu_mhz : uuid -> int
    queried,            \* get_cpu_mhz: the UUIDs passed to get_cpu_time
    ticks_tracked,      \* history variable: uuid -> iterations completed
                        \* since the VM appeared with no fetched history
    db,                 \* the central database: uuid -> list(int), for
                        \* the VMs whose history the collector has seen
    ret                 \* the last direct call of a module function

vars == <<data_length, physical_cpus, files, now, pc, error, previous_time,
          previous_cpu_time, vms_current, vms_added, vms_removed,
          added_vm_data, cpu_mhz, queried, ticks_tracked, db, ret>>

(***************************************************************************)
(* Bounds of the model.                                                    *)
(***************************************************************************)
VMS == {"vm1", "vm2"}       \* the VM UUIDs
MaxLength == 1              \* collector: data_length ranges over 0..MaxLength
MaxFetch == 2               \* collector: longest history the database returns
MaxCpus == 2                \* collector: physical_cpus ranges over 1..MaxCpus
MaxTicks == 3               \* collector: iterations of one behaviour
Interval == 5               \* config 'data_collector_interval', in seconds
CpuSecs == {0, 10}          \* collector: the CPU times reported, in seconds
MaxStoreLength == 2         \* direct store calls: data_length
MaxStoreFetch == 2          \* direct store calls: longest list written
MaxFnTime == 5              \* direct calls: timestamps 0..MaxFnTime
MaxFnSec == 10              \* direct calls: CPU times 0..MaxFnSec s
MaxList == 3                \* direct calls: longest list of UUIDs
FnVMS == {"a", "b", "c"}    \* direct calls: the UUIDs of the lists
FetchValues == {3}          \* collector: the samples the database holds
StoreValues == {3, 12}      \* direct store calls: the samples written
AppendValues == {-1}        \* direct store calls: the samples appended
NsValues == {0, 500000000}  \* direct calls: sub-second parts of a CPU time
MaxIterations == 10         \* common.start: iterations is in 0..MaxIterations
MaxLs == 2                  \* nlp: longest list of L functions
LFunctions == {"zero", "windows", "state"}  \* nlp: the L functions
Windows == {<<1, 1>>, <<2, 1>>, <<1, 2>>}   \* nlp: the window sizes m
StateVectors == {<<1, 0>>, <<0, 1>>}        \* nlp: the state vectors
Matrices == {<<<<1, 0>>, <<0, 1>>>>, <<<<0, 1>>, <<1, 0>>>>}  \* nlp: p
MigrationTimes == {0, 60}   \* nlp: migration_time, in seconds
TimesInStates == {0, 30}    \* nlp: time_in_states and time_in_state_n
OtfValues == {[num |-> 1, den |-> 2], [num |-> 1, den |-> 1]}  \* nlp: otf

(***************************************************************************)
(* Python built-ins used by the collector.                                 *)
(***************************************************************************)
NL == "\n"
EmptyDict == [x \in {} |-> 0]
DIGITS == <<"0", "1", "2", "3", "4", "5", "6", "7", "8", "9">>
WHITESPACE == {NL, " "}

ToSet(list) == {list[i] : i \in DOMAIN list}

\* All the orders in which a set (or the keys of a dict) can be iterated.
Perms(S) ==
    {p \in [1..Cardinality(S) -> S] : \A i, j \in 1..Cardinality(S) : p[i] = p[j] => i = j}

\* All the lists over S of length at most n.
Lists(S, n) == UNION {[1..k -> S] : k \in 0..n}

RECURSIVE str_nat(_)
str_nat(n) ==
    IF n < 10 THEN <<DIGITS[n + 1]>>
    ELSE str_nat(n \div 10) \o <<DIGITS[(n % 10) + 1]>>

\* str(x) of an int
str(x) == IF x < 0 THEN <<"-">> \o str_nat(-x) ELSE str_nat(x)

RECURSIVE join(_, _)
\* sep.join(strings)
join(sep, strings) ==
    IF strings = <<>> THEN <<>>
    ELSE IF Len(strings) = 1 THEN strings[1]
    ELSE strings[1] \o <<sep>> \o join(sep, Tail(strings))

RECURSIVE lstrip(_)
lstrip(s) ==
    IF s # <<>> /\ s[1] \in WHITESPACE THEN lstrip(Tail(s)) ELSE s

RECURSIVE rstrip(_)
rstrip(s) ==
    IF s # <<>> /\ s[Len(s)] \in WHITESPACE
    THEN rstrip(SubSeq(s, 1, Len(s) - 1)) ELSE s

\* s.strip()
strip(s) == rstrip(lstrip(s))

RECURSIVE splitlines_from(_, _, _)
splitlines_from(s, line, lines) ==
    IF s = <<>> THEN (IF line = <<>> THEN lines ELSE Append(lines, line))
    ELSE IF s[1] = NL THEN splitlines_from(Tail(s), <<>>, Append(lines, line))
    ELSE splitlines_from(Tail(s), Append(line, s[1]), lines)

\* s.splitlines(): the lines of s without their line ends; '' has no line
splitlines(s) == splitlines_from(s, <<>>, <<>>)

\* Mutant of last_slice: values[:n], the first n elements are kept.
last_slice_first(values, n) ==
    IF n = 0 \/ n >= Len(values) THEN values ELSE SubSeq(values, 1, n)

\* values[-n:] of a list
last_slice(values, n) ==
    IF n = 0 \/ n >= Len(values) THEN values
    ELSE SubSeq(values, Len(values) - n + 1, Len(values))

\* deque(iterable, maxlen): the last maxlen items
deque(iterable, maxlen) ==
    IF maxlen = 0 THEN <<>> ELSE last_slice(iterable, maxlen)

\* Mutant of deque_append: the newest item leaves a full deque.
deque_append_drop_newest(d, maxlen, x) ==
    IF maxlen = 0 THEN <<>>
    ELSE IF Len(d) >= maxlen THEN Append(SubSeq(d, 1, Len(d) - 1), x)
    ELSE Append(d, x)

\* d.append(x) on a deque of maxlen: the oldest item leaves a full deque
deque_append(d, maxlen, x) ==
    IF maxlen = 0 THEN <<>>
    ELSE IF Len(d) >= maxlen THEN Append(Tail(d), x)
    ELSE Append(d, x)

(***************************************************************************)
(* Arithmetic on a CPU time [s, ns] = s * NANO + ns, 0 <= ns < NANO.       *)
(* A difference is kept in the same form (s may be negative).              *)
(***************************************************************************)
NANO == 1000000000

CpuTime(sec, nsec) == [s |-> sec, ns |-> nsec]

\* a - b
ns_sub(a, b) ==
    IF a.ns - b.ns < 0
    THEN [s |-> a.s - b.s - 1, ns |-> a.ns - b.ns + NANO]
    ELSE [s |-> a.s - b.s, ns |-> a.ns - b.ns]

\* -x
ns_neg(x) ==
    IF x.ns = 0 THEN [s |-> -x.s, ns |-> 0]
    ELSE [s |-> -x.s - 1, ns |-> NANO - x.ns]

\* x / (d * NANO) of two Python 2 ints, d # 0: the floor of the quotient.
\* floor(x / (d * NANO)) = floor(floor(x / NANO) / d) for d > 0, and
\* floor(x / NANO) is x.s.
int_div(x, d) ==
    IF d > 0 THEN x.s \div d ELSE ns_neg(x).s \div (-d)

\* int(x / (d * NANO)) with a float divisor, d # 0: the quotient cut
\* towards zero.
float_div_int(x, d) ==
    IF x = CpuTime(0, 0) \/ ((x.s < 0) <=> (d < 0)) THEN int_div(x, d)
    ELSE -int_div(ns_neg(x), d)

(***************************************************************************)
(* Python dicts.                                                           *)
(***************************************************************************)
\* d[k] = v
dict_set(d, k, v) == [x \in DOMAIN d \cup {k} |-> IF x = k THEN v ELSE d[x]]

\* del d[k]
dict_del(d, k) == [x \in DOMAIN d \ {k} |-> d[x]]

(***************************************************************************)
(* The functions of neat/locals/collector.py.                              *)
(***************************************************************************)

\* Mutant of substract_lists: [x for x in list1 if x not in list2], the
\* duplicates of list1 stay.
substract_lists_keep_duplicates(list1, list2) ==
    {SelectSeq(list1, LAMBDA x : x \notin ToSet(list2))}

\* substract_lists: list(set(list1).difference(list2)).  The order of the
\* list made from a set is not defined: the operator is the set of the
\* lists the call may return.
substract_lists(list1, list2) == Perms(ToSet(list1) \ ToSet(list2))

get_added_vms(previous_vms, current_vms) ==
    substract_lists(current_vms, previous_vms)

get_removed_vms(previous_vms, current_vms) ==
    substract_lists(previous_vms, current_vms)

\* The local history a file holds, as append_data_locally reads it:
\* f.read().strip().splitlines()
read_lines(text) == splitlines(strip(text))

\* The digit a character stands for.
digit_of(c) == CHOOSE d \in 0..9 : DIGITS[d + 1] = c

RECURSIVE nat_of(_)
nat_of(s) ==
    IF s = <<>> THEN 0
    ELSE nat_of(SubSeq(s, 1, Len(s) - 1)) * 10 + digit_of(s[Len(s)])

\* int(s) of a line of a history file
int_of(s) == IF s[1] = "-" THEN -nat_of(Tail(s)) ELSE nat_of(s)

\* The history a file holds: a new line separated list of integers.
read_history(text) ==
    [i \in DOMAIN read_lines(text) |-> int_of(read_lines(text)[i])]

RECURSIVE cleanup_local_data(_, _)
\* os.remove of each VM's file, in the order of the list; os.remove of a
\* file that does not exist raises OSError and ends the loop.
cleanup_local_data(dir, vms) ==
    IF vms = <<>> THEN [exc |-> "none", files |-> dir]
    ELSE IF Head(vms) \notin DOMAIN dir THEN [exc |-> "OSError", files |-> dir]
    ELSE cleanup_local_data(dict_del(dir, Head(vms)), Tail(vms))

\* Mutant of written_text: the values are written without the slice.
written_text_unsliced(values, length) ==
    IF length > 0
    THEN join(NL, [i \in DOMAIN values |-> str(values[i])]) \o <<NL>>
    ELSE <<>>

\* The text write_data_locally writes for one VM: open(..., 'w') empties
\* the file, and nothing is written when data_length is not positive.
written_text(values, length) ==
    IF length > 0
    THEN join(NL, [i \in DOMAIN last_slice(values, length) |->
                       str(last_slice(values, length)[i])]) \o <<NL>>
    ELSE <<>>

\* write_data_locally: every VM of data gets its file rewritten.
write_data_locally(dir, data, length) ==
    [uuid \in DOMAIN dir \cup DOMAIN data |->
        IF uuid \in DOMAIN data THEN written_text(data[uuid], length)
        ELSE dir[uuid]]

\* append_data_locally gone wrong: the file is left as it was.
appended_text_unchanged(text, value, length) == text

\* The text append_data_locally leaves in one VM's file.
appended_text(text, value, length) ==
    join(NL, deque_append(deque(read_lines(text), length), length, str(value)))
        \o <<NL>>

RECURSIVE append_data_locally(_, _, _, _)
\* append_data_locally, the items of data taken in the given order;
\* open(..., 'r+') of a file that does not exist raises IOError.
append_data_locally(dir, data, order, length) ==
    IF order = <<>> THEN [exc |-> "none", files |-> dir]
    ELSE IF Head(order) \notin DOMAIN dir THEN [exc |-> "IOError", files |-> dir]
    ELSE append_data_locally(
             [dir EXCEPT ![Head(order)] =
                  appended_text(dir[Head(order)], data[Head(order)], length)],
             data, Tail(order), length)

\* Mutant of calculate_cpu_mhz: the number of CPUs is left out of the
\* divisor.
calculate_cpu_mhz_one_cpu(cpus, prev_time, current_time, prev_cpu_time, current_cpu_time, float_time) ==
    LET d == current_time - prev_time
        x == ns_sub(current_cpu_time, prev_cpu_time)
    IN  IF d = 0 THEN [exc |-> "ZeroDivisionError", value |-> 0]
        ELSE [exc |-> "none",
              value |-> IF float_time THEN float_div_int(x, d) ELSE int_div(x, d)]

\* calculate_cpu_mhz.  float_time tells whether a timestamp is a float,
\* as time.time() is: the division is then a true division and int() cuts
\* its result towards zero; with int timestamps it is the floor division
\* of Python 2.  A zero divisor raises ZeroDivisionError in both.
calculate_cpu_mhz(cpus, prev_time, current_time, prev_cpu_time, current_cpu_time, float_time) ==
    LET d == (current_time - prev_time) * cpus
        x == ns_sub(current_cpu_time, prev_cpu_time)
    IN  IF d = 0 THEN [exc |-> "ZeroDivisionError", value |-> 0]
        ELSE [exc |-> "none",
              value |-> IF float_time THEN float_div_int(x, d) ELSE int_div(x, d)]

(***************************************************************************)
(* get_cpu_mhz.  The hypervisor is the dict hv from the UUIDs it answers   *)
(* for to their CPU time; get_cpu_time of any other UUID raises            *)
(* libvirtError.  The result is [exc, previous_cpu_time, cpu_mhz, queried],  *)
(* queried being the UUIDs get_cpu_time was called with.                   *)
(***************************************************************************)
RECURSIVE sample_previous(_, _, _, _, _, _, _)
\* lines 406-411: a rate for every VM that has a previous CPU time
sample_previous(order, acc, hv, cpus, prev_time, current_time, float_time) ==
    IF order = <<>> \/ acc.exc # "none" THEN acc
    ELSE LET uuid == Head(order)
             mhz == calculate_cpu_mhz(cpus, prev_time, current_time,
                                      acc.previous_cpu_time[uuid], hv[uuid],
                                      float_time)
             asked == acc.queried \cup {uuid}
         IN  IF uuid \notin DOMAIN hv
             THEN [acc EXCEPT !.exc = "libvirtError", !.queried = asked]
             ELSE IF mhz.exc # "none"
                  THEN [acc EXCEPT !.exc = mhz.exc, !.queried = asked]
             ELSE sample_previous(
                      Tail(order),
                      [exc |-> "none",
                       previous_cpu_time |->
                           dict_set(acc.previous_cpu_time, uuid, hv[uuid]),
                       cpu_mhz |-> dict_set(acc.cpu_mhz, uuid, mhz.value),
                       queried |-> asked],
                      hv, cpus, prev_time, current_time, float_time)

\* line 415: the value emitted for an added VM
seed_value(acc, data, uuid) ==
    IF data[uuid] # <<>>
    THEN dict_set(acc.cpu_mhz, uuid, data[uuid][Len(data[uuid])])
    ELSE acc.cpu_mhz

RECURSIVE sample_added(_, _, _, _)
\* lines 413-416: the VMs without a previous CPU time
sample_added(order, acc, hv, data) ==
    IF order = <<>> \/ acc.exc # "none" THEN acc
    ELSE LET uuid == Head(order)
         IN  IF uuid \notin DOMAIN data THEN [acc EXCEPT !.exc = "KeyError"]
             ELSE IF uuid \notin DOMAIN hv
                  THEN [acc EXCEPT !.exc = "libvirtError",
                                   !.cpu_mhz = seed_value(acc, data, uuid),
                                   !.queried = acc.queried \cup {uuid}]
             ELSE sample_added(
                      Tail(order),
                      [exc |-> "none",
                       previous_cpu_time |->
                           dict_set(acc.previous_cpu_time, uuid, hv[uuid]),
                       cpu_mhz |-> seed_value(acc, data, uuid),
                       queried |-> acc.queried \cup {uuid}],
                      hv, data)

\* lines 418-420 gone wrong: the previous CPU times of the VMs that are
\* no longer current are kept.
sample_removed_baseline_kept(order, acc) ==
    IF acc.exc # "none" THEN acc
    ELSE [acc EXCEPT !.cpu_mhz = [uuid \in DOMAIN acc.cpu_mhz \ ToSet(order)
                                     |-> acc.cpu_mhz[uuid]]]

RECURSIVE sample_removed(_, _)
\* lines 418-420: the VMs that are no longer current
sample_removed(order, acc) ==
    IF order = <<>> \/ acc.exc # "none" THEN acc
    ELSE LET uuid == Head(order)
         IN  IF uuid \notin DOMAIN acc.previous_cpu_time
                \/ uuid \notin DOMAIN acc.cpu_mhz
             THEN [acc EXCEPT !.exc = "KeyError"]
             ELSE sample_removed(
                      Tail(order),
                      [exc |-> "none",
                       previous_cpu_time |-> dict_del(acc.previous_cpu_time, uuid),
                       cpu_mhz |-> dict_del(acc.cpu_mhz, uuid),
                       queried |-> acc.queried])

\* get_cpu_mhz; orders = <<order of previous_cpu_time.items(), order of
\* added_vms, order of removed_vms>>
get_cpu_mhz(hv, cpus, prev_cpu_time, prev_time, current_time, current_vms, data, float_time, orders) ==
    sample_removed(orders[3],
        sample_added(orders[2],
            sample_previous(orders[1],
                [exc |-> "none", previous_cpu_time |-> prev_cpu_time,
                 cpu_mhz |-> EmptyDict, queried |-> {}],
                hv, cpus, prev_time, current_time, float_time),
            hv, data))

\* previous_cpu_time.keys(), in some order
prev_cpu_time_keys(prev_cpu_time) ==
    CHOOSE p \in Perms(DOMAIN prev_cpu_time) : TRUE

\* The iteration orders a call of get_cpu_mhz may follow.
sample_orders(prev_cpu_time, current_vms) ==
    Perms(DOMAIN prev_cpu_time)
        \X get_added_vms(prev_cpu_time_keys(prev_cpu_time), current_vms)
        \X get_removed_vms(prev_cpu_time_keys(prev_cpu_time), current_vms)

(***************************************************************************)
(* The collector process: start() runs init_state and then execute once    *)
(* per iteration.  execute is taken statement by statement; an exception   *)
(* leaves execute and the loop, and ends the process.                      *)
(*                                                                         *)
(* execute as written passes too few arguments at line 181                 *)
(* (get_current_vms()) and line 184 (cleanup_local_data(vms_removed)),     *)
(* reads state['vir_connection'] where init_state stores 'vir_connect',    *)
(* and takes the database from config instead of state.  The model gives   *)
(* each call the arguments its parameters name (the path, the hypervisor   *)
(* connection, the database), so that the iteration behind them runs.      *)
(***************************************************************************)
NoCall == [fn |-> "none"]

\* a < b for two CPU times
ns_less(a, b) == a.s < b.s \/ (a.s = b.s /\ a.ns < b.ns)

\* The history variable ticks_tracked after a sampling pass.  It follows
\* the VMs that appeared with an empty fetched history: 0 in the iteration
\* of their appearance, one more in every later iteration in which they
\* are live and their CPU time has not gone backward; a VM that is not
\* live or whose CPU time went backward is followed no more.
tracked_ticks(ticks, current_vms, data, prev_cpu_time, new_cpu_time) ==
    LET appeared == {uuid \in ToSet(current_vms) :
                        uuid \in DOMAIN data /\ data[uuid] = <<>>}
        kept == {uuid \in ToSet(current_vms) \cap DOMAIN ticks :
                    /\ uuid \notin DOMAIN data
                    /\ uuid \in DOMAIN prev_cpu_time
                    /\ ~ns_less(new_cpu_time[uuid], prev_cpu_time[uuid])}
    IN  [uuid \in appeared \cup kept |->
            IF uuid \in appeared THEN 0 ELSE ticks[uuid] + 1]

\* The CPU times the hypervisor reports in an iteration.
CpuTimes == {CpuTime(sec, 0) : sec \in CpuSecs}

\* The answers of the hypervisor to the queries for the VMs of a set: a
\* CPU time for some of them, libvirtError for the others.
Hypervisors(uuids) == UNION {[S -> CpuTimes] : S \in SUBSET uuids}

Init ==
    /\ data_length \in 0..MaxLength
    /\ physical_cpus \in 1..MaxCpus
    /\ files = EmptyDict
    /\ now = 0
    /\ pc = "stopped"
    /\ error = "none"
    /\ previous_time = 0
    /\ previous_cpu_time = EmptyDict
    /\ vms_current = <<>>
    /\ vms_added = <<>>
    /\ vms_removed = <<>>
    /\ added_vm_data = EmptyDict
    /\ cpu_mhz = EmptyDict
    /\ queried = {}
    /\ ticks_tracked = EmptyDict
    /\ db = EmptyDict
    /\ ret = NoCall

LocalsCleared ==
    /\ vms_current' = <<>>
    /\ vms_added' = <<>>
    /\ vms_removed' = <<>>
    /\ added_vm_data' = EmptyDict
    /\ cpu_mhz' = EmptyDict
    /\ queried' = {}

\* The process ends: its state dict and the locals of execute are gone.
ProcessGone ==
    /\ previous_time' = 0
    /\ previous_cpu_time' = EmptyDict
    /\ ticks_tracked' = EmptyDict
    /\ LocalsCleared

\* An exception leaves execute and ends the process.
Raise(exc) ==
    /\ pc' = "crashed"
    /\ error' = exc
    /\ ProcessGone

(***************************************************************************)
(* The central database (db.select_cpu_mhz_for_vm, db.insert_cpu_mhz).     *)
(* Its code is not part of the sources at hand; it is written down from    *)
(* the specification: fetchHistory(vm_id, limit) gives the history of a    *)
(* VM in order, pushSample adds one sample at its end.  Of the history of  *)
(* a VM the variable db keeps its last data_length samples, which is what  *)
(* the local file is compared with; the older samples are chosen when the  *)
(* database answers.  Whether the answer is cut to the limit is left open: *)
(* the database may hand out older samples too, and write_data_locally     *)
(* cuts the answer again.                                                  *)
(***************************************************************************)
select_cpu_mhz_for_vm(store, uuid, n) ==
    IF uuid \notin DOMAIN store
    THEN Lists(FetchValues, MaxFetch)
    ELSE IF Len(store[uuid]) < n
    THEN {store[uuid]}
    ELSE {older \o store[uuid] :
             older \in Lists(FetchValues,
                             IF MaxFetch > Len(store[uuid])
                             THEN MaxFetch - Len(store[uuid]) ELSE 0)}

\* insert_cpu_mhz gone wrong: the samples are not stored.
insert_cpu_mhz_lost(store, data, n) == store

insert_cpu_mhz(store, data, n) ==
    [uuid \in DOMAIN store \cup DOMAIN data |->
        IF uuid \notin DOMAIN data THEN store[uuid]
        ELSE IF uuid \in DOMAIN store
        THEN deque(Append(store[uuid], data[uuid]), n)
        ELSE deque(<<data[uuid]>>, n)]

\* start() up to the first iteration: init_state
Start ==
    /\ pc \in {"stopped", "crashed"}
    /\ pc' = "idle"
    /\ error' = "none"
    /\ previous_time' = 0
    /\ previous_cpu_time' = EmptyDict
    /\ ticks_tracked' = EmptyDict
    /\ UNCHANGED <<data_length, physical_cpus, files, now, vms_current,
                   vms_added, vms_removed, added_vm_data, cpu_mhz, queried,
                   db, ret>>

\* The process is stopped between two iterations.
Stop ==
    /\ pc = "idle"
    /\ pc' = "stopped"
    /\ ProcessGone
    /\ UNCHANGED <<data_length, physical_cpus, files, now, error, db, ret>>

\* execute, lines 179-183: the tracked and the live VMs are compared
Reconcile ==
    /\ pc = "idle"
    /\ now < MaxTicks * Interval
    /\ \E live \in SUBSET VMS :
       \E current \in Perms(live), previous \in Perms(DOMAIN files) :
       \E added \in get_added_vms(previous, current),
          removed \in get_removed_vms(previous, current) :
          /\ vms_current' = current
          /\ vms_added' = added
          /\ vms_removed' = removed
    /\ pc' = "cleanup"
    /\ UNCHANGED <<data_length, physical_cpus, files, now, error,
                   previous_time, previous_cpu_time, added_vm_data, cpu_mhz,
                   queried, ticks_tracked, db, ret>>

\* execute, line 184
Cleanup ==
    /\ pc = "cleanup"
    /\ LET r == cleanup_local_data(files, vms_removed)
       IN  /\ files' = r.files
           /\ IF r.exc = "none"
              THEN /\ pc' = "fetch"
                   /\ UNCHANGED <<error, previous_time, previous_cpu_time,
                                  vms_current, vms_added, vms_removed,
                                  added_vm_data, cpu_mhz, queried,
                                  ticks_tracked>>
              ELSE Raise(r.exc)
    /\ UNCHANGED <<data_length, physical_cpus, now, db, ret>>

\* execute, lines 185-188: fetch_remote_data; the central database
\* answers, with the history of every added VM
Fetch ==
    /\ pc = "fetch"
    /\ \E data \in [ToSet(vms_added) ->
                       UNION {select_cpu_mhz_for_vm(db, uuid, data_length) :
                                 uuid \in ToSet(vms_added)}] :
          /\ \A uuid \in ToSet(vms_added) :
                data[uuid] \in select_cpu_mhz_for_vm(db, uuid, data_length)
          /\ added_vm_data' = data
          /\ db' = [uuid \in DOMAIN db \cup ToSet(vms_added) |->
                       IF uuid \in ToSet(vms_added)
                       THEN deque(data[uuid], data_length)
                       ELSE db[uuid]]
    /\ pc' = "write"
    /\ UNCHANGED <<data_length, physical_cpus, files, now, error,
                   previous_time, previous_cpu_time, vms_current, vms_added,
                   vms_removed, cpu_mhz, queried, ticks_tracked, ret>>

\* execute, lines 186-188: a query of the central database fails
\* (select_cpu_mhz_for_vm is called for every added VM); nothing catches
\* the exception
FetchFails ==
    /\ pc = "fetch"
    /\ vms_added # <<>>
    /\ Raise("OperationalError")
    /\ UNCHANGED <<data_length, physical_cpus, files, now, db, ret>>

\* execute, line 189
Write ==
    /\ pc = "write"
    /\ files' = write_data_locally(files, added_vm_data, data_length)
    /\ pc' = "sample"
    /\ UNCHANGED <<data_length, physical_cpus, now, error, previous_time,
                   previous_cpu_time, vms_current, vms_added, vms_removed,
                   added_vm_data, cpu_mhz, queried, ticks_tracked, db, ret>>

\* execute, lines 190-199: the clock is read (time.time(), a float), one
\* interval after the last reading, and the VMs are sampled
Sample ==
    /\ pc = "sample"
    /\ \E t \in {now + Interval},
          hv \in Hypervisors(DOMAIN previous_cpu_time \cup ToSet(vms_current)),
          orders \in sample_orders(previous_cpu_time, vms_current) :
          LET r == get_cpu_mhz(hv, physical_cpus, previous_cpu_time,
                               previous_time, t, vms_current, added_vm_data,
                               TRUE, orders)
          IN  /\ now' = t
              /\ IF r.exc = "none"
                 THEN /\ previous_time' = t
                      /\ previous_cpu_time' = r.previous_cpu_time
                      /\ cpu_mhz' = r.cpu_mhz
                      /\ queried' = r.queried
                      /\ ticks_tracked' =
                             tracked_ticks(ticks_tracked, vms_current,
                                           added_vm_data, previous_cpu_time,
                                           r.previous_cpu_time)
                      /\ pc' = "append"
                      /\ UNCHANGED <<error, vms_current, vms_added,
                                     vms_removed, added_vm_data>>
                 ELSE Raise(r.exc)
    /\ UNCHANGED <<data_length, physical_cpus, files, db, ret>>

\* execute, line 200
AppendLocal ==
    /\ pc = "append"
    /\ \E order \in Perms(DOMAIN cpu_mhz) :
          LET r == append_data_locally(files, cpu_mhz, order, data_length)
          IN  /\ files' = r.files
              /\ IF r.exc = "none"
                 THEN /\ pc' = "remote"
                      /\ UNCHANGED <<error, previous_time, previous_cpu_time,
                                     vms_current, vms_added, vms_removed,
                                     added_vm_data, cpu_mhz, queried,
                                     ticks_tracked>>
                 ELSE Raise(r.exc)
    /\ UNCHANGED <<data_length, physical_cpus, now, db, ret>>

\* execute, lines 201-202: the samples go to the central database and the
\* iteration returns
AppendRemote ==
    /\ pc = "remote"
    /\ db' = insert_cpu_mhz(db, cpu_mhz, data_length)
    /\ pc' = "idle"
    /\ LocalsCleared
    /\ UNCHANGED <<data_length, physical_cpus, files, now, error,
                   previous_time, previous_cpu_time, ticks_tracked, ret>>

\* execute, line 201: insert_cpu_mhz fails; nothing catches the exception
AppendRemoteFails ==
    /\ pc = "remote"
    /\ Raise("OperationalError")
    /\ UNCHANGED <<data_length, physical_cpus, files, now, db, ret>>

\* The text of a file at a moment of the rewrite of lines 354-356: the
\* file is cut to nothing by truncate(0), and the new text reaches it when
\* the buffer of write is flushed, at once or piece by piece.
rewrite_stages(new_text) ==
    {SubSeq(new_text, 1, n) : n \in 0..Len(new_text)}

\* execute, line 200: the process is killed (or the host goes down) inside
\* append_data_locally.  The files of the VMs taken before are rewritten;
\* the file of the VM being taken is as it was (lines 351-353: opened and
\* read) or at a stage of its rewrite.
AppendCrash ==
    /\ pc = "append"
    /\ \E order \in Perms(DOMAIN cpu_mhz) : \E k \in DOMAIN order :
          LET before == append_data_locally(files, cpu_mhz,
                                            SubSeq(order, 1, k - 1), data_length)
              uuid == order[k]
          IN  /\ before.exc = "none"
              /\ uuid \in DOMAIN files
              /\ \E text \in {files[uuid]} \cup
                      rewrite_stages(appended_text(files[uuid], cpu_mhz[uuid],
                                                   data_length)) :
                     files' = [before.files EXCEPT ![uuid] = text]
    /\ pc' = "crashed"
    /\ error' = "killed"
    /\ ProcessGone
    /\ UNCHANGED <<data_length, physical_cpus, now, db, ret>>

Next ==
    \/ Start
    \/ Stop
    \/ Reconcile
    \/ Cleanup
    \/ Fetch
    \/ FetchFails
    \/ Write
    \/ Sample
    \/ AppendLocal
    \/ AppendCrash
    \/ AppendRemote
    \/ AppendRemoteFails

Spec == Init /\ [][Next]_vars

(***************************************************************************)
(* Direct calls of the store functions (write_data_locally,                *)
(* append_data_locally, cleanup_local_data) on the local directory, as     *)
(* the module's callers and tests make them.  Any sequence of calls sets   *)
(* up the directory; ret observes one call, with the directory before it.  *)
(***************************************************************************)
WriteDicts == UNION {[S -> Lists(StoreValues, MaxStoreFetch)] : S \in SUBSET VMS}

AppendDicts == UNION {[S -> AppendValues] : S \in SUBSET VMS}

InitStore ==
    /\ data_length \in 0..MaxStoreLength
    /\ physical_cpus = 1
    /\ files = EmptyDict
    /\ now = 0
    /\ pc = "direct"
    /\ error = "none"
    /\ previous_time = 0
    /\ previous_cpu_time = EmptyDict
    /\ vms_current = <<>>
    /\ vms_added = <<>>
    /\ vms_removed = <<>>
    /\ added_vm_data = EmptyDict
    /\ cpu_mhz = EmptyDict
    /\ queried = {}
    /\ ticks_tracked = EmptyDict
    /\ db = EmptyDict
    /\ ret = NoCall

Observe(observed, call) == ret' = IF observed THEN call ELSE NoCall

CallWrite ==
    /\ ret = NoCall
    /\ \E data \in WriteDicts, observed \in BOOLEAN :
          /\ files' = write_data_locally(files, data, data_length)
          /\ Observe(observed, [fn |-> "write_data_locally", data |-> data,
                                before |-> files, exc |-> "none"])
    /\ UNCHANGED <<data_length, physical_cpus, now, pc, error, previous_time,
                   previous_cpu_time, vms_current, vms_added, vms_removed,
                   added_vm_data, cpu_mhz, queried, ticks_tracked, db>>

CallAppend ==
    /\ ret = NoCall
    /\ \E data \in AppendDicts, observed \in BOOLEAN :
       \E order \in Perms(DOMAIN data) :
          LET r == append_data_locally(files, data, order, data_length)
          IN  /\ files' = r.files
              /\ Observe(observed, [fn |-> "append_data_locally", data |-> data,
                                    before |-> files, exc |-> r.exc])
    /\ UNCHANGED <<data_length, physical_cpus, now, pc, error, previous_time,
                   previous_cpu_time, vms_current, vms_added, vms_removed,
                   added_vm_data, cpu_mhz, queried, ticks_tracked, db>>

CallCleanup ==
    /\ ret = NoCall
    /\ \E vms \in Lists(VMS, MaxList), observed \in BOOLEAN :
          LET r == cleanup_local_data(files, vms)
          IN  /\ files' = r.files
              /\ Observe(observed, [fn |-> "cleanup_local_data", vms |-> vms,
                                    before |-> files, exc |-> r.exc])
    /\ UNCHANGED <<data_length, physical_cpus, now, pc, error, previous_time,
                   previous_cpu_time, vms_current, vms_added, vms_removed,
                   added_vm_data, cpu_mhz, queried, ticks_tracked, db>>

NextStore ==
    \/ CallWrite
    \/ CallAppend
    \/ CallCleanup

SpecStore == InitStore /\ [][NextStore]_vars

(***************************************************************************)
(* Direct calls of the pure functions: one call, observed in ret.          *)
(***************************************************************************)
FnCpuTimes == {CpuTime(sec, nsec) : sec \in 0..MaxFnSec, nsec \in NsValues}

InitFn ==
    /\ data_length = 0
    /\ physical_cpus = 1
    /\ files = EmptyDict
    /\ now = 0
    /\ pc = "direct"
    /\ error = "none"
    /\ previous_time = 0
    /\ previous_cpu_time = EmptyDict
    /\ vms_current = <<>>
    /\ vms_added = <<>>
    /\ vms_removed = <<>>
    /\ added_vm_data = EmptyDict
    /\ cpu_mhz = EmptyDict
    /\ queried = {}
    /\ ticks_tracked = EmptyDict
    /\ db = EmptyDict
    /\ ret = NoCall

CallCalculate ==
    /\ ret = NoCall
    /\ \E cpus \in 1..MaxCpus, t_prev \in 0..MaxFnTime, t_now \in 0..MaxFnTime,
          c_prev \in FnCpuTimes, c_now \in FnCpuTimes, float_time \in BOOLEAN :
          ret' = [fn |-> "calculate_cpu_mhz", cpus |-> cpus,
                  previous_time |-> t_prev, current_time |-> t_now,
                  previous_cpu_time |-> c_prev, current_cpu_time |-> c_now,
                  float_time |-> float_time,
                  out |-> calculate_cpu_mhz(cpus, t_prev, t_now, c_prev, c_now,
                                            float_time)]
    /\ UNCHANGED <<data_length, physical_cpus, files, now, pc, error,
                   previous_time, previous_cpu_time, vms_current, vms_added,
                   vms_removed, added_vm_data, cpu_mhz, queried,
                   ticks_tracked, db>>

CallReconcile ==
    /\ ret = NoCall
    /\ \E previous_vms \in Lists(FnVMS, MaxList), current_vms \in Lists(FnVMS, MaxList) :
       \E added \in get_added_vms(previous_vms, current_vms),
          removed \in get_removed_vms(previous_vms, current_vms) :
          ret' = [fn |-> "reconcile", previous_vms |-> previous_vms,
                  current_vms |-> current_vms, added |-> added,
                  removed |-> removed]
    /\ UNCHANGED <<data_length, physical_cpus, files, now, pc, error,
                   previous_time, previous_cpu_time, vms_current, vms_added,
                   vms_removed, added_vm_data, cpu_mhz, queried,
                   ticks_tracked, db>>

NextFn ==
    \/ CallCalculate
    \/ CallReconcile

SpecFn == InitFn /\ [][NextFn]_vars

(***************************************************************************)
(* nlp.py: the objective and the constraint of the MHOD problem.           *)
(*                                                                         *)
(* A closure is the record of the variables its function captured; calling *)
(* it is an operator of the closure and the window sizes m, giving         *)
(* [exc, value, calls, closure]: the exception or "none", the number       *)
(* returned, the calls made to the L functions in their order, and the     *)
(* closure after the call.  The L functions are callables of the caller:   *)
(* the model has three of them, with integer values, chosen by name.  A    *)
(* quotient is kept exact as the pair of its numerator and denominator;    *)
(* the rounding of float is not modelled.                                  *)
(***************************************************************************)
Fraction(num, den) == [num |-> num, den |-> den]

NoValue == Fraction(0, 0)

\* operator.le on two fractions of positive denominators
operator_le(a, b) == a.num * b.den <= b.num * a.den

\* l(state_vector, p, m) for the L function named l
call_l(l, state_vector, p, m) ==
    CASE l = "zero" -> 0
      [] l = "windows" -> m[1] + m[2]
      [] l = "state" -> state_vector[1] * p[1][1] * m[1]

RECURSIVE sum_ls(_, _, _, _)
\* sum(l(state_vector, p, m) for l in ls), with the calls it makes
sum_ls(ls, state_vector, p, m) ==
    IF ls = <<>> THEN [value |-> 0, calls |-> <<>>]
    ELSE LET rest == sum_ls(Tail(ls), state_vector, p, m)
         IN  [value |-> call_l(Head(ls), state_vector, p, m) + rest.value,
              calls |-> <<[l |-> Head(ls), state_vector |-> state_vector,
                           p |-> p, m |-> m]>> \o rest.calls]

build_objective(ls, state_vector, p) ==
    [ls |-> ls, state_vector |-> state_vector, p |-> p]

\* objective gone wrong: the last L function is left out of the sum.
objective_without_last(closure, m) ==
    LET total == sum_ls(SubSeq(closure.ls, 1, Len(closure.ls) - 1),
                        closure.state_vector, closure.p, m)
    IN  [exc |-> "none", value |-> Fraction(total.value, 1),
         calls |-> total.calls, closure |-> closure]

\* objective(*m), line 41
objective(closure, m) ==
    LET total == sum_ls(closure.ls, closure.state_vector, closure.p, m)
    IN  [exc |-> "none", value |-> Fraction(total.value, 1),
         calls |-> total.calls, closure |-> closure]

build_constraint(otf, migration_time, ls, state_vector, p, time_in_states, time_in_state_n) ==
    <<[migration_time |-> migration_time, ls |-> ls,
       state_vector |-> state_vector, p |-> p,
       time_in_states |-> time_in_states,
       time_in_state_n |-> time_in_state_n],
      "operator.le", otf>>

\* constraint gone wrong: the first L function in the numerator.
constraint_first_l(closure, m) ==
    LET total == sum_ls(closure.ls, closure.state_vector, closure.p, m)
        num == closure.migration_time + closure.time_in_state_n
                   + call_l(closure.ls[1], closure.state_vector, closure.p, m)
        den == closure.migration_time + closure.time_in_states + total.value
    IN  IF closure.ls = <<>> \/ den = 0
        THEN [exc |-> "Error", value |-> NoValue, calls |-> <<>>,
              closure |-> closure]
        ELSE [exc |-> "none", value |-> Fraction(num, den),
              calls |-> total.calls, closure |-> closure]

\* constraint(*m), lines 74-75: the numerator is evaluated first (ls[-1]
\* of an empty list raises IndexError), then the denominator, then the
\* quotient (a zero denominator raises ZeroDivisionError).
constraint(closure, m) ==
    IF closure.ls = <<>>
    THEN [exc |-> "IndexError", value |-> NoValue, calls |-> <<>>,
          closure |-> closure]
    ELSE LET l_last == closure.ls[Len(closure.ls)]
             last_call == [l |-> l_last, state_vector |-> closure.state_vector,
                           p |-> closure.p, m |-> m]
             total == sum_ls(closure.ls, closure.state_vector, closure.p, m)
             num == closure.migration_time + closure.time_in_state_n
                        + call_l(l_last, closure.state_vector, closure.p, m)
             den == closure.migration_time + closure.time_in_states
                        + total.value
         IN  [exc |-> IF den = 0 THEN "ZeroDivisionError" ELSE "none",
              value |-> IF den = 0 THEN NoValue ELSE Fraction(num, den),
              calls |-> <<last_call>> \o total.calls,
              closure |-> closure]

(***************************************************************************)
(* Calls of nlp.py as a solver makes them: the objective and the           *)
(* constraint are built once from the same arguments, and then evaluated   *)
(* any number of times in any order.  ret holds the arguments, the two     *)
(* results of the builders, and for each function and each m the results   *)
(* its evaluations have given so far.                                      *)
(***************************************************************************)
BuildProblem ==
    /\ ret = NoCall
    /\ \E otf \in OtfValues, migration_time \in MigrationTimes,
          ls \in Lists(LFunctions, MaxLs), state_vector \in StateVectors,
          p \in Matrices, time_in_states \in TimesInStates,
          time_in_state_n \in TimesInStates :
          ret' = [fn |-> "nlp", otf |-> otf,
                  migration_time |-> migration_time, ls |-> ls,
                  state_vector |-> state_vector, p |-> p,
                  time_in_states |-> time_in_states,
                  time_in_state_n |-> time_in_state_n,
                  objective |-> build_objective(ls, state_vector, p),
                  constraint |-> build_constraint(otf, migration_time, ls,
                                                  state_vector, p,
                                                  time_in_states,
                                                  time_in_state_n),
                  evals |-> [e \in {"objective", "constraint"} \X Windows
                                |-> {}]]
    /\ UNCHANGED <<data_length, physical_cpus, files, now, pc, error,
                   previous_time, previous_cpu_time, vms_current, vms_added,
                   vms_removed, added_vm_data, cpu_mhz, queried,
                   ticks_tracked, db>>

EvaluateObjective ==
    /\ ret.fn = "nlp"
    /\ \E m \in Windows :
          LET out == objective(ret.objective, m)
          IN  ret' = [ret EXCEPT
                         !.objective = out.closure,
                         !.evals[<<"objective", m>>] =
                             @ \cup {[exc |-> out.exc, value |-> out.value,
                                      calls |-> out.calls]}]
    /\ UNCHANGED <<data_length, physical_cpus, files, now, pc, error,
                   previous_time, previous_cpu_time, vms_current, vms_added,
                   vms_removed, added_vm_data, cpu_mhz, queried,
                   ticks_tracked, db>>

EvaluateConstraint ==
    /\ ret.fn = "nlp"
    /\ \E m \in Windows :
          LET out == constraint(ret.constraint[1], m)
          IN  ret' = [ret EXCEPT
                         !.constraint[1] = out.closure,
                         !.evals[<<"constraint", m>>] =
                             @ \cup {[exc |-> out.exc, value |-> out.value,
                                      calls |-> out.calls]}]
    /\ UNCHANGED <<data_length, physical_cpus, files, now, pc, error,
                   previous_time, previous_cpu_time, vms_current, vms_added,
                   vms_removed, added_vm_data, cpu_mhz, queried,
                   ticks_tracked, db>>

NextNlp ==
    \/ BuildProblem
    \/ EvaluateObjective
    \/ EvaluateConstraint

SpecNlp == InitFn /\ [][NextNlp]_vars

(***************************************************************************)
(* common.start(init_state, execute, config, time_interval, iterations),   *)
(* the loop that collector.start hands init_state and execute to.  Its     *)
(* code is not part of the sources at hand: the loop is written down from  *)
(* the specification (the control loop of 4.5 and 5: one state carried     *)
(* from iteration to iteration, an iteration runs to completion before the *)
(* next begins) and from the test Common.start, with the functions of      *)
(* that test: init_state returns a state, execute returns a state.  So     *)
(* that the states can be told apart, init_state returns 0 and the i-th    *)
(* call of execute returns i.  ret holds the loop: the calls of            *)
(* init_state, the states passed to execute, the states it returned, the   *)
(* calls of execute in progress, and in result the value start returned,   *)
(* once it has returned.                                                   *)
(***************************************************************************)
\* start calls init_state(config)
loop_init(iterations, state) ==
    [fn |-> "start", iterations |-> iterations, init_calls |-> 1,
     state |-> state, passed |-> <<>>, returned |-> <<>>, active |-> 0,
     result |-> <<>>]

\* start calls execute(config, state)
loop_call(loop) ==
    [loop EXCEPT !.passed = Append(@, loop.state), !.active = @ + 1]

\* the loop gone wrong: the state execute returned is dropped.
loop_return_dropped(loop, state) ==
    [loop EXCEPT !.returned = Append(@, state), !.active = @ - 1]

\* execute returns: state = execute(config, state)
loop_return(loop, state) ==
    [loop EXCEPT !.state = state, !.returned = Append(@, state),
                 !.active = @ - 1]

StartLoop ==
    /\ ret = NoCall
    /\ \E iterations \in 0..MaxIterations : ret' = loop_init(iterations, 0)
    /\ UNCHANGED <<data_length, physical_cpus, files, now, pc, error,
                   previous_time, previous_cpu_time, vms_current, vms_added,
                   vms_removed, added_vm_data, cpu_mhz, queried,
                   ticks_tracked, db>>

ExecuteCall ==
    /\ ret.fn = "start"
    /\ ret.result = <<>>
    /\ ret.active = 0
    /\ Len(ret.passed) < ret.iterations
    /\ ret' = loop_call(ret)
    /\ UNCHANGED <<data_length, physical_cpus, files, now, pc, error,
                   previous_time, previous_cpu_time, vms_current, vms_added,
                   vms_removed, added_vm_data, cpu_mhz, queried,
                   ticks_tracked, db>>

ExecuteReturn ==
    /\ ret.fn = "start"
    /\ ret.active = 1
    /\ ret' = loop_return(ret, Len(ret.passed))
    /\ UNCHANGED <<data_length, physical_cpus, files, now, pc, error,
                   previous_time, previous_cpu_time, vms_current, vms_added,
                   vms_removed, added_vm_data, cpu_mhz, queried,
                   ticks_tracked, db>>

\* start returns the state
ReturnLoop ==
    /\ ret.fn = "start"
    /\ ret.result = <<>>
    /\ ret.active = 0
    /\ Len(ret.passed) = ret.iterations
    /\ ret' = [ret EXCEPT !.result = <<ret.state>>]
    /\ UNCHANGED <<data_length, physical_cpus, files, now, pc, error,
                   previous_time, previous_cpu_time, vms_current, vms_added,
                   vms_removed, added_vm_data, cpu_mhz, queried,
                   ticks_tracked, db>>

NextLoop ==
    \/ StartLoop
    \/ ExecuteCall
    \/ ExecuteReturn
    \/ ReturnLoop

SpecLoop == InitFn /\ [][NextLoop]_vars

(***************************************************************************)
(* The properties.                                                         *)
(***************************************************************************)
Min(a, b) == IF a <= b THEN a ELSE b

NoDuplicates(list) == \A i, j \in DOMAIN list : list[i] = list[j] => i = j

\* C1: in every state of the collector, whatever the capacity
\* data_length >= 0 and the length of the fetched histories, the local
\* history of every VM holds at most data_length samples.
C1_HistoryBounded ==
    \A uuid \in DOMAIN files : Len(read_lines(files[uuid])) <= data_length

\* C1 happens: a history longer than the capacity was fetched for a VM,
\* written, and a sample appended to it, and its history is at capacity.
C1_Witness ==
    /\ pc = "remote"
    /\ data_length >= 1
    /\ \E uuid \in DOMAIN cpu_mhz \cap DOMAIN added_vm_data :
          /\ Len(added_vm_data[uuid]) > data_length
          /\ Len(read_lines(files[uuid])) = data_length

\* C2: FIFO eviction law.  After append_data_locally has appended v to a
\* history h (len(h) <= capacity, capacity >= 1), the history has length
\* min(len(h) + 1, capacity), ends with v, and the elements before v are
\* the last elements of h in their order.
C2_FifoEviction ==
    (ret.fn = "append_data_locally" /\ ret.exc = "none" /\ data_length >= 1) =>
        \A uuid \in DOMAIN ret.data :
            LET h == read_history(ret.before[uuid])
                after == read_history(files[uuid])
                n == Min(Len(h) + 1, data_length)
            IN  /\ Len(h) <= data_length
                /\ Len(after) = n
                /\ after[n] = ret.data[uuid]
                /\ \A i \in 1..(n - 1) : after[i] = h[Len(h) - (n - 1) + i]

\* C2 happens: a sample was appended to a history at a capacity of two or
\* more, and the oldest sample left.
C2_Witness ==
    /\ ret.fn = "append_data_locally"
    /\ ret.exc = "none"
    /\ data_length >= 2
    /\ \E uuid \in DOMAIN ret.data :
          /\ Len(read_history(ret.before[uuid])) = data_length
          /\ read_history(ret.before[uuid])[1] # read_history(ret.before[uuid])[2]
          /\ read_history(files[uuid])[1] = read_history(ret.before[uuid])[2]

\* C3: truncation law.  After write_data_locally of `values` with a limit
\* >= 1, the history read back is the last `limit` elements of values when
\* len(values) > limit, and values otherwise, whatever was there before.
C3_Truncation ==
    (ret.fn = "write_data_locally" /\ data_length >= 1) =>
        \A uuid \in DOMAIN ret.data :
            LET values == ret.data[uuid]
            IN  /\ uuid \in DOMAIN files
                /\ read_history(files[uuid]) =
                       IF Len(values) > data_length
                       THEN [i \in 1..data_length |->
                                 values[Len(values) - data_length + i]]
                       ELSE values

\* C3 happens: a list longer than the limit, with distinct ends, replaced
\* a history that was not empty.
C3_Witness ==
    /\ ret.fn = "write_data_locally"
    /\ data_length >= 1
    /\ \E uuid \in DOMAIN ret.data \cap DOMAIN ret.before :
          /\ Len(ret.data[uuid]) > data_length
          /\ ret.data[uuid][1] # ret.data[uuid][Len(ret.data[uuid])]
          /\ read_history(ret.before[uuid]) # <<>>
          /\ read_history(ret.before[uuid]) # read_history(files[uuid])

\* C4: get_added_vms returns the ids that are live and not tracked,
\* get_removed_vms those tracked and not live, each id once, whatever the
\* order and the duplicates of the inputs; added and removed are disjoint
\* and (tracked minus removed) union added is live.
C4_SetDifference ==
    ret.fn = "reconcile" =>
        LET tracked == ToSet(ret.previous_vms)
            live == ToSet(ret.current_vms)
            added == ToSet(ret.added)
            removed == ToSet(ret.removed)
        IN  /\ added = {v \in live : v \notin tracked}
            /\ removed = {v \in tracked : v \notin live}
            /\ NoDuplicates(ret.added)
            /\ NoDuplicates(ret.removed)
            /\ added \cap removed = {}
            /\ (tracked \ removed) \cup added = live

\* C4 happens: tracked {a, b} and live {b, c}, given in another order and
\* with a duplicate, give added {c} and removed {a}.
C4_Witness ==
    /\ ret.fn = "reconcile"
    /\ ret.previous_vms = <<"b", "a", "b">>
    /\ ret.current_vms = <<"c", "b", "c">>
    /\ ret.added = <<"c">>
    /\ ret.removed = <<"a">>

\* C5: deleting the local history of VMs of which one has no local record
\* is not an error, and leaves no record of them and the other records as
\* they were.
C5_DeleteIdempotent ==
    (ret.fn = "cleanup_local_data"
        /\ \E i \in DOMAIN ret.vms :
              ret.vms[i] \notin DOMAIN ret.before
              \/ \E j \in 1..(i - 1) : ret.vms[j] = ret.vms[i]) =>
        /\ ret.exc = "none"
        /\ files = [uuid \in DOMAIN ret.before \ ToSet(ret.vms) |-> ret.before[uuid]]

\* C6: for int arguments with cpus >= 1, t_prev < t_now and
\* c_prev <= c_now, calculate_cpu_mhz returns the integer part q of
\* (c_now - c_prev) / ((t_now - t_prev) * 10^9 * cpus), q >= 0:
\* q * d <= c_now - c_prev < (q + 1) * d for the divisor d, stated on the
\* whole seconds of the difference.  rate(2, 0, 1, 0, 2 * 10^9) = 1 and
\* 10 * 10^9 ns in 5 s on 2 CPUs give 1.
C6_IntegerPart ==
    (ret.fn = "calculate_cpu_mhz" /\ ~ret.float_time
        /\ ret.previous_time < ret.current_time
        /\ (ret.previous_cpu_time.s < ret.current_cpu_time.s
            \/ (ret.previous_cpu_time.s = ret.current_cpu_time.s
                /\ ret.previous_cpu_time.ns <= ret.current_cpu_time.ns))) =>
        LET d == (ret.current_time - ret.previous_time) * ret.cpus
            borrow == IF ret.current_cpu_time.ns < ret.previous_cpu_time.ns
                      THEN 1 ELSE 0
            secs == ret.current_cpu_time.s - ret.previous_cpu_time.s - borrow
            q == ret.out.value
        IN  /\ ret.out.exc = "none"
            /\ q >= 0
            /\ q * d <= secs
            /\ secs < (q + 1) * d
            /\ (ret.cpus = 2 /\ d = 2 /\ secs = 2) => q = 1
            /\ (ret.cpus = 2 /\ d = 10 /\ secs = 10) => q = 1

\* C6 happens: 2 CPUs, 5 seconds, the counter advanced by 10 * 10^9 ns.
C6_Witness ==
    /\ ret.fn = "calculate_cpu_mhz"
    /\ ~ret.float_time
    /\ ret.cpus = 2
    /\ ret.current_time - ret.previous_time = 5
    /\ ret.previous_cpu_time = CpuTime(0, 0)
    /\ ret.current_cpu_time = CpuTime(10, 0)
    /\ ret.out = [exc |-> "none", value |-> 1]

\* C7: when the CPU time of a tracked VM went backward between two
\* iterations, the sampling pass emits no sample for that VM, and the new
\* CPU time is its baseline.
C7_CounterRegression ==
    [][(pc = "sample" /\ pc' = "append") =>
          \A uuid \in DOMAIN previous_cpu_time \cap DOMAIN previous_cpu_time' :
              ns_less(previous_cpu_time'[uuid], previous_cpu_time[uuid]) =>
                  uuid \notin DOMAIN cpu_mhz']_vars

\* C8: calculate_cpu_mhz with t_now = t_prev fails with DegenerateInterval.
C8_DegenerateInterval ==
    (ret.fn = "calculate_cpu_mhz" /\ ret.current_time = ret.previous_time) =>
        ret.out.exc = "DegenerateInterval"

\* C9: a sampling pass in which the hypervisor answers, for every live VM
\* without a previous CPU time: no rate is computed; the value emitted is
\* the last element of the history fetched for it, none when there is
\* none; and its current CPU time is recorded as the baseline.
C9_AddedVmSeeded ==
    [][(pc = "sample" /\ pc' # "sample" /\ error' # "libvirtError") =>
          \A uuid \in ToSet(vms_current) \ DOMAIN previous_cpu_time :
              /\ pc' = "append"
              /\ uuid \in DOMAIN previous_cpu_time'
              /\ IF uuid \in DOMAIN added_vm_data /\ added_vm_data[uuid] # <<>>
                 THEN /\ uuid \in DOMAIN cpu_mhz'
                      /\ cpu_mhz'[uuid] =
                             added_vm_data[uuid][Len(added_vm_data[uuid])]
                 ELSE uuid \notin DOMAIN cpu_mhz']_vars

\* C10: the first iteration after a (re)start (previous_time = 0, no
\* previous CPU time) with live VMs that already have a local history
\* completes without error when the hypervisor answers: no rate is
\* computed for those VMs, their CPU time becomes the baseline and their
\* history stays as it is.
C10_RestartBaseline ==
    [][(pc = "sample" /\ pc' # "sample" /\ error' # "libvirtError"
            /\ previous_time = 0 /\ previous_cpu_time = EmptyDict) =>
          \A uuid \in ToSet(vms_current) \ ToSet(vms_added) :
              /\ error' = "none"
              /\ pc' = "append"
              /\ uuid \in DOMAIN previous_cpu_time'
              /\ uuid \notin DOMAIN cpu_mhz'
              /\ files'[uuid] = files[uuid]]_vars

\* C11: a failure of the hypervisor query for one VM does not abort the
\* sampling pass: no pass ends with the error of that query.
C11_FailureIsolated ==
    [][(pc = "sample" /\ pc' # "sample") => error' # "libvirtError"]_vars

C12_WitnessFull ==
    /\ pc = "idle"
    /\ \E uuid \in DOMAIN ticks_tracked :
          /\ ticks_tracked[uuid] > data_length
          /\ data_length >= 1
          /\ Len(read_lines(files[uuid])) = data_length

RECURSIVE Sum(_)
Sum(numbers) ==
    IF numbers = <<>> THEN 0 ELSE Head(numbers) + Sum(Tail(numbers))

\* the values of the L functions of the problem in ret at m
LValues(m) ==
    [i \in DOMAIN ret.ls |-> call_l(ret.ls[i], ret.state_vector, ret.p, m)]

\* C13: build_constraint returns the triple (predicate, <=, otf), and for
\* every m, the list of L functions not being empty and the denominator
\* not zero, predicate(m) is (migration_time + time_in_state_n + L_last)
\* / (migration_time + time_in_states + sum of all L), L at
\* (state_vector, p, m).  With migration_time 60, both times 0 and the one
\* L function 0 everywhere the value is 1: it satisfies otf = 1.0 and
\* violates otf = 0.5.
C13_Constraint ==
    ret.fn = "nlp" =>
        /\ ret.constraint[2] = "operator.le"
        /\ ret.constraint[3] = ret.otf
        /\ \A m \in Windows : \A e \in ret.evals[<<"constraint", m>>] :
              LET num == ret.migration_time + ret.time_in_state_n
                             + LValues(m)[Len(ret.ls)]
                  den == ret.migration_time + ret.time_in_states
                             + Sum(LValues(m))
              IN  (ret.ls # <<>> /\ den # 0) =>
                      /\ e.exc = "none"
                      /\ e.value = Fraction(num, den)
                      /\ (ret.migration_time = 60 /\ ret.time_in_states = 0
                              /\ ret.time_in_state_n = 0
                              /\ ret.ls = <<"zero">>) =>
                             /\ e.value.num = e.value.den
                             /\ ret.otf = Fraction(1, 1) =>
                                    operator_le(e.value, ret.constraint[3])
                             /\ ret.otf = Fraction(1, 2) =>
                                    ~operator_le(e.value, ret.constraint[3])

\* C13 happens: the constraint built from migration_time 60, times 0, the
\* one L function 0 and otf 0.5 was evaluated, to 60 / 60.
C13_Witness ==
    /\ ret.fn = "nlp"
    /\ ret.migration_time = 60
    /\ ret.time_in_states = 0
    /\ ret.time_in_state_n = 0
    /\ ret.ls = <<"zero">>
    /\ ret.otf = Fraction(1, 2)
    /\ \E m \in Windows :
          ret.evals[<<"constraint", m>>] =
              {[exc |-> "none", value |-> Fraction(60, 60),
                calls |-> <<[l |-> "zero", state_vector |-> ret.state_vector,
                             p |-> ret.p, m |-> m],
                            [l |-> "zero", state_vector |-> ret.state_vector,
                             p |-> ret.p, m |-> m]>>]}

\* C13 with L functions that are not zero: two different L functions, the
\* last one in the numerator.
C13_WitnessLast ==
    /\ ret.fn = "nlp"
    /\ ret.ls = <<"zero", "windows">>
    /\ ret.migration_time = 60
    /\ ret.time_in_states = 30
    /\ ret.time_in_state_n = 0
    /\ [exc |-> "none", value |-> Fraction(63, 93)]
           \in {[exc |-> e.exc, value |-> e.value] :
                   e \in ret.evals[<<"constraint", <<2, 1>>>>]}

\* C14: an evaluation of the constraint at which migration_time +
\* time_in_states + the sum of the L values is zero fails with
\* InvalidModelInput.
C14_InvalidModelInput ==
    ret.fn = "nlp" =>
        \A m \in Windows : \A e \in ret.evals[<<"constraint", m>>] :
            (ret.ls # <<>>
                /\ ret.migration_time + ret.time_in_states
                       + Sum(LValues(m)) = 0) =>
                e.exc = "InvalidModelInput"

C16_ControlLoop ==
    ret.fn = "start" =>
        /\ ret.init_calls = 1
        /\ ret.active \in {0, 1}
        /\ Len(ret.passed) <= ret.iterations
        /\ Len(ret.returned) = Len(ret.passed) - ret.active
        /\ \A i \in DOMAIN ret.passed :
              ret.passed[i] = IF i = 1 THEN 0 ELSE ret.returned[i - 1]
        /\ ret.result # <<>> =>
              /\ ret.active = 0
              /\ Len(ret.returned) = ret.iterations
              /\ ret.result = IF ret.iterations = 0 THEN <<0>>
                              ELSE <<ret.returned[ret.iterations]>>

\* C16 happens: start has returned after three iterations.
C16_Witness ==
    /\ ret.fn = "start"
    /\ ret.iterations = 3
    /\ ret.passed = <<0, 1, 2>>
    /\ ret.returned = <<1, 2, 3>>
    /\ ret.result = <<3>>

\* C16 with no iteration: start has returned the state of init_state.
C16_WitnessNone ==
    /\ ret.fn = "start"
    /\ ret.iterations = 0
    /\ ret.passed = <<>>
    /\ ret.result = <<0>>

C18_SamplingOnlyLive ==
    pc = "append" =>
        /\ \A uuid \in ToSet(vms_removed) : uuid \notin DOMAIN files
        /\ \A uuid \in ToSet(vms_added) : uuid \in DOMAIN files
        /\ queried \subseteq ToSet(vms_current)
        /\ DOMAIN cpu_mhz \subseteq DOMAIN files

\* C19: when the process is killed inside append_data_locally, the
\* history in the file of every VM of the call is the history before the
\* call or the history with the sample appended.
C19_AtomicAppend ==
    [][(pc = "append" /\ error' = "killed") =>
          \A uuid \in DOMAIN cpu_mhz \cap DOMAIN files :
              \/ read_lines(files'[uuid]) = read_lines(files[uuid])
              \/ read_lines(files'[uuid]) =
                     read_lines(appended_text(files[uuid], cpu_mhz[uuid],
                                              data_length))]_vars

\* C20: when a call of the central database fails in an iteration
\* (fetching the history of an added VM, or inserting the samples), no
\* local file is lost or changed by the failure, no history is longer
\* than data_length, and the samples of the VMs that were already tracked
\* have been appended: the iteration is past append_data_locally, or no
\* tracked VM is live.
C20_StoreFailureLocal ==
    [][(error = "none" /\ error' = "OperationalError") =>
          /\ files' = files
          /\ \A uuid \in DOMAIN files' :
                Len(read_lines(files'[uuid])) <= data_length
          /\ \/ pc = "remote"
             \/ DOMAIN previous_cpu_time \cap ToSet(vms_current) = {}]_vars

C21_WitnessBack ==
    /\ pc = "remote"
    /\ data_length = 1
    /\ "vm1" \in ToSet(vms_added) \cap DOMAIN cpu_mhz \cap DOMAIN files
    /\ added_vm_data["vm1"] # <<>>
    /\ cpu_mhz["vm1"] \notin FetchValues
    /\ read_history(files["vm1"]) = <<cpu_mhz["vm1"]>>

====
